---- MODULE Spec2Model ----
(***************************************************************************)
(* Model of backend/server.js: the expert directory cache                  *)
(* (fetchExpertDatabase), the model gateway (callClaude) and the three     *)
(* phase handlers, as a state machine of the Node.js event loop.  Every    *)
(* action is one run-to-completion segment of JavaScript: the code between *)
(* two awaits.                                                             *)
(*                                                                         *)
(* Text (the CSV feed, its lines and fields) is a sequence of one-character*)
(* strings.  A JSON value is a record [t, n, s]: t its type tag, n its     *)
(* number (or 0/1 for a boolean), s its characters or array elements.      *)
(***************************************************************************)
EXTENDS Integers, Sequences, FiniteSets, TLC

-----------------------------------------------------------------------------
(* String primitives of the JavaScript runtime used by the CSV parsing.    *)

\* StrWhiteSpaceChar (those that can occur in the feeds modelled here).
WhiteSpace == {" ", "\t", "\r", "\n"}

RECURSIVE SplitFrom(_, _, _, _)
\* The pieces of text from position i on, cur being the piece under way.
SplitFrom(text, sep, i, cur) ==
  IF i > Len(text) THEN <<cur>>
  ELSE IF text[i] = sep THEN <<cur>> \o SplitFrom(text, sep, i + 1, <<>>)
  ELSE SplitFrom(text, sep, i + 1, Append(cur, text[i]))

\* String.prototype.split(sep) with a one-character separator.
Split(text, sep) == SplitFrom(text, sep, 1, <<>>)

RECURSIVE TrimStart(_)
TrimStart(s) ==
  IF s # <<>> /\ Head(s) \in WhiteSpace THEN TrimStart(Tail(s)) ELSE s

RECURSIVE TrimEnd(_)
TrimEnd(s) ==
  IF s # <<>> /\ s[Len(s)] \in WhiteSpace
  THEN TrimEnd(SubSeq(s, 1, Len(s) - 1)) ELSE s

\* String.prototype.trim().
Trim(s) == TrimEnd(TrimStart(s))

\* The digits of radix 16 in order of value; the first ten are the decimal ones.
DigitChars ==
  <<"0", "1", "2", "3", "4", "5", "6", "7", "8", "9", "a", "b", "c", "d", "e", "f">>

Lower(c) ==
  CASE c = "A" -> "a" [] c = "B" -> "b" [] c = "C" -> "c"
    [] c = "D" -> "d" [] c = "E" -> "e" [] c = "F" -> "f" [] OTHER -> c

IsDigit(c, radix) == \E k \in 1..radix : DigitChars[k] = Lower(c)

DigitValue(c) == (CHOOSE k \in 1..16 : DigitChars[k] = Lower(c)) - 1

RECURSIVE DigitPrefix(_, _)
\* The longest prefix of s made of digits of the radix.
DigitPrefix(s, radix) ==
  IF s # <<>> /\ IsDigit(Head(s), radix)
  THEN <<Head(s)>> \o DigitPrefix(Tail(s), radix) ELSE <<>>

RECURSIVE DigitsValue(_, _, _)
DigitsValue(s, radix, acc) ==
  IF s = <<>> THEN acc
  ELSE DigitsValue(Tail(s), radix, acc * radix + DigitValue(Head(s)))

\* The text JavaScript's ToString gives the value undefined.
UndefinedText == <<"u", "n", "d", "e", "f", "i", "n", "e", "d">>

\* parseInt(string) without a radix: leading white space is skipped, a sign
\* is taken, "0x"/"0X" selects radix 16, and the longest digit prefix is the
\* value; NaN when that prefix is empty.
parseInt(s) ==
  LET t      == TrimStart(s)
      signed == t # <<>> /\ Head(t) \in {"+", "-"}
      sign   == IF t # <<>> /\ Head(t) = "-" THEN -1 ELSE 1
      u      == IF signed THEN Tail(t) ELSE t
      hex    == Len(u) >= 2 /\ u[1] = "0" /\ u[2] \in {"x", "X"}
      radix  == IF hex THEN 16 ELSE 10
      v      == IF hex THEN SubSeq(u, 3, Len(u)) ELSE u
      z      == DigitPrefix(v, radix)
  IN  IF z = <<>> THEN [nan |-> TRUE, val |-> 0]
      ELSE [nan |-> FALSE, val |-> sign * DigitsValue(z, radix, 0)]

\* values[k] of the code (k counted from 0); absent past the end of the row.
HasColumn(values, k) == k + 1 <= Len(values)

\* values[k]?.trim() || dflt
TrimmedOr(values, k, dflt) ==
  IF HasColumn(values, k) /\ Trim(values[k + 1]) # <<>>
  THEN Trim(values[k + 1]) ELSE dflt

\* parseInt(values[k]) || 0 : NaN and 0 are both falsy.
IntOrZero(values, k) ==
  LET r == parseInt(IF HasColumn(values, k) THEN values[k + 1] ELSE UndefinedText)
  IN  IF r.nan THEN 0 ELSE r.val

\* The object literal of one data row.
MakeExpert(values) ==
  [ firstName    |-> TrimmedOr(values, 1, <<>>),
    lastName     |-> TrimmedOr(values, 0, <<>>),
    years        |-> TrimmedOr(values, 2, <<>>),
    field1       |-> TrimmedOr(values, 3, <<>>),
    field2       |-> TrimmedOr(values, 4, <<>>),
    descriptor   |-> TrimmedOr(values, 5, <<>>),
    field3       |-> TrimmedOr(values, 6, <<>>),
    status       |-> IntOrZero(values, 7),
    gender       |-> TrimmedOr(values, 8, <<>>),
    geography    |-> TrimmedOr(values, 9, <<>>),
    recognizable |-> TrimmedOr(values, 10, <<"N", "o">>) ]

\* Keeps without the status test.
KeepsAnyStatus(expert) == expert.firstName # <<>>

\* if (expert.firstName && expert.status === 0)
Keeps(expert) == expert.firstName # <<>> /\ expert.status = 0

RECURSIVE ParseRows(_, _, _)
\* The loop over lines[i], i counted from 0 as in the code, db being the
\* array built so far.
ParseRows(lines, i, db) ==
  IF ~(i < Len(lines)) THEN db
  ELSE IF Trim(lines[i + 1]) = <<>> THEN ParseRows(lines, i + 1, db)
  ELSE LET expert == MakeExpert(Split(lines[i + 1], ","))
       IN  ParseRows(lines, i + 1, IF Keeps(expert) THEN Append(db, expert) ELSE db)

\* expertDatabase = []; for (let i = 1; ...) {...} : what a successful
\* fetch stores, given the array it starts the loop with.
ParseInto(data, start) == ParseRows(Split(data, "\n"), 1, start)

\* Refreshed without line 37's reset: the rows are pushed onto the old array.
RefreshedMerging(data, old) == ParseInto(data, old)

\* The array the refresh builds from response.data; old is the array
\* the cache held, which the code drops.
Refreshed(data, old) == ParseInto(data, <<>>)

-----------------------------------------------------------------------------
(* JSON values: request bodies, model outputs and response bodies.          *)

JUndefined   == [t |-> "undefined", n |-> 0, s |-> <<>>]
JNull        == [t |-> "null", n |-> 0, s |-> <<>>]
JNum(k)      == [t |-> "number", n |-> k, s |-> <<>>]
JBool(b)     == [t |-> "boolean", n |-> IF b THEN 1 ELSE 0, s |-> <<>>]
JStr(chars)  == [t |-> "string", n |-> 0, s |-> chars]
\* An array, each element standing for one object by its name.
JArr(names)  == [t |-> "array", n |-> 0, s |-> names]
JObj         == [t |-> "object", n |-> 0, s |-> <<>>]
JElem(name)  == [t |-> "element", n |-> 0, s |-> <<name>>]

\* ToBoolean, as the handlers' !x tests apply it.
Truthy(v) ==
  CASE v.t \in {"undefined", "null"} -> FALSE
    [] v.t = "string"  -> v.s # <<>>
    [] v.t = "number"  -> v.n # 0
    [] v.t = "boolean" -> v.n = 1
    [] OTHER -> TRUE

\* The empty property map.
NoProps == <<>>

\* A value JSON.parse returns: val, and props when val is an object.
Value(v)      == [val |-> v, props |-> NoProps]
Object(props) == [val |-> JObj, props |-> props]

\* The own enumerable properties an object spread (...parsed) copies: an
\* object's properties, the index keys of a string or an array, nothing
\* for null, a number or a boolean.
OwnProps(parsed) ==
  CASE parsed.val.t = "object" -> parsed.props
    [] parsed.val.t = "string" ->
         [k \in {DigitChars[i] : i \in 1..Len(parsed.val.s)} |->
            JStr(<<parsed.val.s[CHOOSE i \in 1..Len(parsed.val.s) : DigitChars[i] = k]>>)]
    [] parsed.val.t = "array" ->
         [k \in {DigitChars[i] : i \in 1..Len(parsed.val.s)} |->
            JElem(parsed.val.s[CHOOSE i \in 1..Len(parsed.val.s) : DigitChars[i] = k])]
    [] OTHER -> NoProps

\* An object literal { ...first, ...then }: a later property replaces an
\* earlier one of the same key.
Override(first, then) == then @@ first

\* res.json({ phase: 1, ...parsed })
Phase1Json(parsed) == Override("phase" :> JNum(1), OwnProps(parsed))

\* Phase2Json with the spread written last.
Phase2JsonSpreadLast(parsed) ==
  Override(("phase" :> JNum(2)) @@ ("swapAvailable" :> JBool(TRUE)) @@ ("swapLimit" :> JNum(3)),
           OwnProps(parsed))

\* res.json({ phase: 2, ...parsed, swapAvailable: true, swapLimit: 3 })
Phase2Json(parsed) ==
  Override(Override("phase" :> JNum(2), OwnProps(parsed)),
           ("swapAvailable" :> JBool(TRUE)) @@ ("swapLimit" :> JNum(3)))

\* Phase3Json with the spread written last.
Phase3JsonSpreadLast(parsed) ==
  Override(("phase" :> JNum(3)) @@ ("totalQuestions" :> JNum(5)), OwnProps(parsed))

\* res.json({ phase: 3, ...parsed, totalQuestions: 5 })
Phase3Json(parsed) ==
  Override(Override("phase" :> JNum(3), OwnProps(parsed)),
           "totalQuestions" :> JNum(5))

\* res.status(code).json({ error: message })
ErrorJson(message) == "error" :> JStr(<<message>>)

\* if (!challenge)
Phase1Valid(b) == Truthy(b.challenge)

\* Phase2Valid testing the challenge alone.
Phase2ValidChallengeOnly(b) == Truthy(b.challenge)

\* if (!challenge || !challengeType)
Phase2Valid(b) == Truthy(b.challenge) /\ Truthy(b.challengeType)

\* if (!challenge || !team)
Phase3Valid(b) == Truthy(b.challenge) /\ Truthy(b.team)

\* team.map(e => e.name) raises a TypeError unless team is an array.
TeamMaps(b) == b.team.t = "array"

-----------------------------------------------------------------------------
(* Inputs: the clock's values, the CSV feeds the sheet may serve, the       *)
(* request bodies and the outputs of the model.                             *)

\* const CACHE_DURATION = 5 * 60 * 1000
CACHE_DURATION == 5 * 60 * 1000

\* Date.now() when the server starts: any value past the staleness window
\* (the real clock reads milliseconds since 1970).
StartTime == CACHE_DURATION

\* Staleness windows the clock runs through.
MaxWindows == 1

\* Request slots served at once.
NumRequests == 1

\* Data lines of a generated feed.
MaxRows == 2

\* The clock's values: each multiple of the window and the millisecond
\* before the next.
TimePoints ==
  { StartTime + k * CACHE_DURATION + e :
      k \in 0..MaxWindows, e \in {0, CACHE_DURATION - 1} }

Header == <<"l", "a", "s", "t", ",", "f", "i", "r", "s", "t">>

\* The spec's example row, shortened: kept
RowJaneDoe == <<"D", "o", "e", ",", "J", "a", "n", "e", ",", "1", "0", ",", "E", "t", "h", ",", ",", "M", "o", "r", "a", "l", ",", ",", "0", ",", "F", ",", "E", "U", ",", "Y", "e", "s">>

\* Status 1
RowStatusOne == <<"R", "o", "e", ",", "R", "i", "c", "k", ",", ",", ",", ",", ",", ",", "1">>

\* A status that is no number, a first name to trim
RowStatusText == <<"P", "o", "e", ",", " ", "A", "n", "n", " ", ",", ",", ",", ",", ",", ",", "x">>

\* No status column
RowShort == <<"L", "e", "e", ",", "B", "o">>

\* An empty first name
RowNoFirstName == <<"K", "a", "y", ",", ",", ",", ",", ",", ",", ",", "0">>

\* A first name of white space
RowBlankFirstName == <<"R", "a", "y", ",", " ", " ", ",", ",", ",", ",", ",", ",", "0">>

\* A blank line
RowBlank == <<>>

\* A line of white space, as a CRLF feed ends its lines
RowSpaces == <<" ", "\r">>

\* A CRLF line, status with a leading space
RowCrLf == <<"F", "o", "x", ",", "A", "l", ",", ",", ",", ",", ",", ",", " ", "0", "\r">>

\* A status with a digit prefix
RowDigitPrefix == <<"D", "a", "y", ",", "C", "y", ",", ",", ",", ",", ",", ",", "1", "x">>

\* A hexadecimal status
RowHex == <<"H", "a", "y", ",", "D", "i", ",", ",", ",", ",", ",", ",", "0", "x", "1">>

\* Minus zero
RowMinusZero == <<"M", "a", "y", ",", "E", "d", ",", ",", ",", ",", ",", ",", "-", "0">>

\* No names at all
RowCommaOnly == <<",">>

RowPool ==
  { RowJaneDoe,
    RowStatusOne,
    RowStatusText,
    RowShort,
    RowNoFirstName,
    RowBlankFirstName,
    RowBlank,
    RowSpaces,
    RowCrLf,
    RowDigitPrefix,
    RowHex,
    RowMinusZero,
    RowCommaOnly }

RECURSIVE JoinLines(_)
\* The lines joined by line feeds: the text whose split gives them back.
JoinLines(lines) ==
  IF Len(lines) = 1 THEN lines[1]
  ELSE lines[1] \o <<"\n">> \o JoinLines(Tail(lines))

\* Feeds of a header and up to MaxRows lines of the pool, and the empty body.
GeneratedFeeds ==
  {<<>>} \cup
  UNION { { JoinLines(<<Header>> \o rs) : rs \in [1..k -> RowPool] } : k \in 0..MaxRows }

\* Three feeds: one whose rows are all dropped, and two of different records.
FeedNone == JoinLines(<<Header, RowStatusOne>>)
FeedOne  == JoinLines(<<Header, RowShort, RowBlank>>)
FeedTwo  == JoinLines(<<Header, RowCrLf, RowShort>>)
SmallFeeds == {FeedNone, FeedOne, FeedTwo}

Text(word) == JStr(<<word>>)

Body(challenge, challengeType, team) ==
  [challenge |-> challenge, challengeType |-> challengeType, team |-> team]

NoBody == Body(JUndefined, JUndefined, JUndefined)

TeamOf(k) == [i \in 1..k |-> DigitChars[i]]

\* What a client may send for a text field, and for the team.
TextInputs == {JUndefined, JNull, JStr(<<>>), Text("text")}
TeamInputs == {JUndefined, JNull, JArr(<<>>), JArr(TeamOf(2)), Text("team")}

Phase1Bodies == { Body(c, JUndefined, JUndefined) : c \in TextInputs }
Phase2Bodies == { Body(c, ct, JUndefined) : c \in TextInputs, ct \in TextInputs }
Phase3Bodies == { Body(c, JUndefined, tm) : c \in TextInputs, tm \in TeamInputs }
SmallPhase2Bodies ==
  { Body(Text("text"), Text("Decision"), JUndefined),
    Body(Text("text"), JUndefined, JUndefined) }

\* A key the model's output leaves out.
Absent == [t |-> "absent", n |-> 0, s |-> <<>>]

Present(choice) ==
  [k \in {k \in DOMAIN choice : choice[k] # Absent} |-> choice[k]]

\* The objects the model may answer with: each key left out or given one
\* of the values listed, the keys the handlers set themselves included.
OutputObjects ==
  { Object(Present(c)) : c \in
      [ phase          : {Absent, JNum(7), Text("two")},
        team           : {Absent, JArr(TeamOf(9)), JArr(TeamOf(2)), Text("none")},
        swapAvailable  : {Absent, JBool(FALSE)},
        swapLimit      : {Absent, JNum(0)},
        questionNumber : {Absent, JNum(6)},
        totalQuestions : {Absent, JNum(9)} ] }

\* Valid JSON that is no object.
OutputValues ==
  { Value(JNull), Value(JNum(5)), Value(JBool(TRUE)), Value(JStr(<<"o", "k">>)),
    Value(JArr(TeamOf(2))) }

ModelOutputs == OutputObjects \cup OutputValues

SmallOutputs ==
  { Object(("team" :> JArr(TeamOf(9))) @@ ("composition" :> Text("diverse"))) }

-----------------------------------------------------------------------------
(* The state: the module's variables, the clock, and one record per        *)
(* handler run (its locals, its position, the requests it sent and its     *)
(* response).                                                              *)

VARIABLES
  now,             \* Date.now()
  expertDatabase,  \* let expertDatabase = []
  lastFetchTime,   \* let lastFetchTime = 0
  lastData,        \* response.data of the refresh that last succeeded
  handler          \* per task: the run of app.listen's callback or of a route

vars == <<now, expertDatabase, lastFetchTime, lastData, handler>>

\* The callback of app.listen, and the request slots.
Boot     == 0
Requests == 1..NumRequests
Tasks    == {Boot} \cup Requests

NoResponse == [status |-> 0, json |-> NoProps]

\* A run that has not started: pc is "init" for Boot, "idle" for a slot.
\*   route   the handler running          body     req.body
\*   now     const now of line 23         experts  what fetchExpertDatabase returned
\*   parsed  JSON.parse(response)         res      the HTTP response sent
\*   reads   calls of fetchExpertDatabase gets     axios.get requests sent
\*   posts   axios.post requests sent     logged   the last console.error
Fresh(pc) ==
  [ pc |-> pc, route |-> "none", body |-> NoBody, now |-> 0, experts |-> <<>>,
    parsed |-> Value(JUndefined), res |-> NoResponse,
    reads |-> 0, gets |-> 0, posts |-> 0, logged |-> "none" ]

Init ==
  /\ now = StartTime
  /\ expertDatabase = <<>>
  /\ lastFetchTime = 0
  /\ lastData = <<>>
  /\ handler = [p \in Tasks |-> Fresh(IF p = Boot THEN "init" ELSE "idle")]

\* CacheFresh with the age compared the wrong way round.
CacheFreshReversed(t) == Len(expertDatabase) > 0 /\ t - lastFetchTime > CACHE_DURATION

\* CacheFresh that also holds while some refresh is in flight.
CacheFreshOrRefreshing(t) ==
  \/ Len(expertDatabase) > 0 /\ t - lastFetchTime < CACHE_DURATION
  \/ \E q \in Tasks : handler[q].pc = "csv"

\* expertDatabase.length > 0 && now - lastFetchTime < CACHE_DURATION
CacheFresh(t) == Len(expertDatabase) > 0 /\ t - lastFetchTime < CACHE_DURATION

\* The handler run ends: its locals are gone, its response stays.
Finished(h) == [h EXCEPT !.pc = "done", !.now = 0, !.experts = <<>>]

\* res.status(code).json(json)
Replied(h, code, json) == Finished([h EXCEPT !.res = [status |-> code, json |-> json]])

\* callClaude(...) up to its await: the POST is sent.
CallingClaude(h) == [h EXCEPT !.pc = "claude", !.posts = @ + 1]

\* The caller of fetchExpertDatabase goes on with what it returned: the
\* route builds its prompt and calls the model, the listen callback logs.
Returned(h, experts) ==
  IF h.route = "listen" THEN Finished(h)
  ELSE CallingClaude([h EXCEPT !.experts = experts])

\* fetchExpertDatabase() up to its first await: the cached array at once,
\* or the GET of the sheet sent.
Reading(h) ==
  IF CacheFresh(now)
  THEN Returned([h EXCEPT !.reads = @ + 1], expertDatabase)
  ELSE [h EXCEPT !.reads = @ + 1, !.now = now, !.pc = "csv", !.gets = @ + 1]

\* lastFetchTime = now : the time the read began, not the time it ends.
Stamp(h) == h.now

\* AfterFailure had line 37's reset come before the await.
AfterFailureCleared(old) == <<>>

\* The cache after the catch block: it assigns nothing.
AfterFailure(old) == old

\* Time passes.
Tick ==
  /\ \E t \in TimePoints : t > now /\ now' = t
  /\ UNCHANGED <<expertDatabase, lastFetchTime, lastData, handler>>

\* app.listen(PORT, () => { fetchExpertDatabase().then(...) })
Listen ==
  /\ handler[Boot].pc = "init"
  /\ handler' = [handler EXCEPT ![Boot] = Reading([Fresh("init") EXCEPT !.route = "listen"])]
  /\ UNCHANGED <<now, expertDatabase, lastFetchTime, lastData>>

\* A request reaches slot p: the server listens and the slot is free.
Arrives(p) == handler[Boot].pc # "init" /\ handler[p].pc \in {"idle", "done"}

Started(route, b) == [Fresh("run") EXCEPT !.route = route, !.body = b]

\* app.post('/api/phase1', ...) up to the await of callClaude.
Phase1(p, b) ==
  /\ Arrives(p)
  /\ handler' = [handler EXCEPT ![p] =
       IF ~Phase1Valid(b)
       THEN Replied(Started("phase1", b), 400, ErrorJson("Challenge required"))
       ELSE CallingClaude(Started("phase1", b))]
  /\ UNCHANGED <<now, expertDatabase, lastFetchTime, lastData>>

\* app.post('/api/phase2', ...) up to its first await that waits.
Phase2(p, b) ==
  /\ Arrives(p)
  /\ handler' = [handler EXCEPT ![p] =
       IF ~Phase2Valid(b)
       THEN Replied(Started("phase2", b), 400,
                    ErrorJson("Challenge and challengeType required"))
       ELSE Reading(Started("phase2", b))]
  /\ UNCHANGED <<now, expertDatabase, lastFetchTime, lastData>>

\* app.post('/api/phase3', ...) up to the await of callClaude.
Phase3(p, b) ==
  /\ Arrives(p)
  /\ handler' = [handler EXCEPT ![p] =
       IF ~Phase3Valid(b)
       THEN Replied(Started("phase3", b), 400, ErrorJson("Challenge and team required"))
       ELSE IF ~TeamMaps(b)
       THEN Replied(Started("phase3", b), 500, ErrorJson("team.map is not a function"))
       ELSE CallingClaude(Started("phase3", b))]
  /\ UNCHANGED <<now, expertDatabase, lastFetchTime, lastData>>

\* axios.get resolves with the text data: lines 34-63 run to the end, then
\* the caller goes on.
CsvOk(p, data) ==
  /\ handler[p].pc = "csv"
  /\ expertDatabase' = Refreshed(data, expertDatabase)
  /\ lastFetchTime' = Stamp(handler[p])
  /\ lastData' = data
  /\ handler' = [handler EXCEPT ![p] = Returned(@, expertDatabase')]
  /\ UNCHANGED now

\* axios.get rejects, or response.data is no string and line 34 raises:
\* the catch block logs and returns the cache.
CsvFails(p) ==
  /\ handler[p].pc = "csv"
  /\ expertDatabase' = AfterFailure(expertDatabase)
  /\ handler' = [handler EXCEPT ![p] =
       Returned([@ EXCEPT !.logged = "Error fetching expert database:"], expertDatabase')]
  /\ UNCHANGED <<now, lastFetchTime, lastData>>

\* The response body of a route for what JSON.parse returned.
SuccessJson(route, parsed) ==
  CASE route = "phase1" -> Phase1Json(parsed)
    [] route = "phase2" -> Phase2Json(parsed)
    [] route = "phase3" -> Phase3Json(parsed)

\* axios.post resolves and its text is valid JSON, parsed.
ClaudeOk(p, parsed) ==
  /\ handler[p].pc = "claude"
  /\ handler' = [handler EXCEPT ![p] =
       Replied([@ EXCEPT !.parsed = parsed], 200, SuccessJson(@.route, parsed))]
  /\ UNCHANGED <<now, expertDatabase, lastFetchTime, lastData>>

\* axios.post resolves and JSON.parse raises on its text.
ClaudeBadJson(p) ==
  /\ handler[p].pc = "claude"
  /\ handler' = [handler EXCEPT ![p] = Replied(@, 500, ErrorJson("Unexpected token"))]
  /\ UNCHANGED <<now, expertDatabase, lastFetchTime, lastData>>

\* axios.post rejects (or the reply has no content[0].text): callClaude
\* logs and rethrows.
ClaudeFails(p) ==
  /\ handler[p].pc = "claude"
  /\ handler' = [handler EXCEPT ![p] =
       Replied([@ EXCEPT !.logged = "Claude API error:"], 500, ErrorJson("Request failed"))]
  /\ UNCHANGED <<now, expertDatabase, lastFetchTime, lastData>>

\* The directory under concurrent Phase 2 requests.
Next ==
  \/ Tick
  \/ Listen
  \/ \E p \in Requests, b \in SmallPhase2Bodies : Phase2(p, b)
  \/ \E p \in Tasks, data \in SmallFeeds : CsvOk(p, data)
  \/ \E p \in Tasks : CsvFails(p)
  \/ \E p \in Requests, parsed \in SmallOutputs : ClaudeOk(p, parsed)

Spec == Init /\ [][Next]_vars

\* The three routes on one slot, over every body and every model output.
NextPhases ==
  \/ Listen
  \/ \E b \in Phase1Bodies : Phase1(1, b)
  \/ \E b \in Phase2Bodies : Phase2(1, b)
  \/ \E b \in Phase3Bodies : Phase3(1, b)
  \/ \E p \in {Boot, 1} : CsvOk(p, FeedOne)
  \/ \E p \in {Boot, 1} : CsvFails(p)
  \/ \E parsed \in ModelOutputs : ClaudeOk(1, parsed)
  \/ ClaudeBadJson(1)
  \/ ClaudeFails(1)

SpecPhases == Init /\ [][NextPhases]_vars

\* The first refresh, over every generated feed.
NextCsv ==
  \/ Listen
  \/ \E data \in GeneratedFeeds : CsvOk(Boot, data)
  \/ CsvFails(Boot)

SpecCsv == Init /\ [][NextCsv]_vars

-----------------------------------------------------------------------------
(* Properties.                                                             *)

\* Task p begins a directory read in this step: a handler run starts and
\* calls fetchExpertDatabase.
BeginsRead(p) ==
  /\ handler[p].pc \in {"init", "idle", "done"}
  /\ handler'[p].pc \in {"csv", "claude"}
  /\ handler'[p].reads = 1

\* The read task p begins is answered from the cache: no GET is sent, the
\* cache stays, and the caller holds exactly the cached sequence.
ServedFromCache(p) ==
  /\ handler'[p].gets = 0
  /\ \A q \in Tasks : handler'[q].gets = IF q = p THEN 0 ELSE handler[q].gets
  /\ handler'[p].experts = expertDatabase
  /\ UNCHANGED <<expertDatabase, lastFetchTime>>

\* C1, as stated: every directory read made while a snapshot stored by a
\* successful refresh (lastFetchTime is set) is younger than the staleness
\* window sends no CSV fetch and returns exactly the cached sequence,
\* whatever snapshot was stored.
C1_AnyFreshSnapshotServed ==
  [][\A p \in Tasks :
       (BeginsRead(p) /\ lastFetchTime > 0 /\ now - lastFetchTime < CACHE_DURATION)
         => ServedFromCache(p)]_vars

\* C1, amended: every directory read made while a non-empty snapshot is
\* younger than the staleness window (its age counted from the stored
\* refresh timestamp) sends no CSV fetch and returns exactly the cached
\* sequence.
C1_FreshNonEmptySnapshotServed ==
  [][\A p \in Tasks :
       ( /\ BeginsRead(p)
         /\ Len(expertDatabase) > 0
         /\ lastFetchTime > 0
         /\ now - lastFetchTime < CACHE_DURATION )
         => ServedFromCache(p)]_vars

\* A Phase 2 run that was served a non-empty snapshot from the cache, one
\* millisecond before the window closes.
C1_Witness ==
  \E p \in Requests :
    /\ handler[p].pc = "claude"
    /\ handler[p].reads = 1
    /\ handler[p].gets = 0
    /\ Len(handler[p].experts) > 0
    /\ handler[p].experts = expertDatabase
    /\ now - lastFetchTime = CACHE_DURATION - 1

\* The refresh of task p fails in this step: its catch block logs.
RefreshFails(p) ==
  /\ handler[p].pc = "csv"
  /\ handler'[p].logged = "Error fetching expert database:"

\* C2: when a refresh fails, the cached sequence and the refresh timestamp
\* stay as they were and the read returns that sequence instead of
\* raising: a non-empty cache stays non-empty and the Phase 2 run that
\* asked goes on to call the model, with no error response.
C2_FailedRefreshKeepsCache ==
  [][\A p \in Tasks :
       RefreshFails(p) =>
         /\ expertDatabase' = expertDatabase
         /\ lastFetchTime' = lastFetchTime
         /\ (Len(expertDatabase) > 0 => Len(expertDatabase') > 0)
         /\ handler[p].route = "phase2" =>
              /\ handler'[p].experts = expertDatabase
              /\ handler'[p].pc = "claude"
              /\ handler'[p].posts = 1
              /\ handler'[p].res = NoResponse
         /\ handler[p].route = "listen" =>
              handler'[p].pc = "done"]_vars

\* A Phase 2 run whose refresh failed over a stale, non-empty cache and
\* which went on with the stale records.
C2_Witness ==
  \E p \in Requests :
    /\ handler[p].logged = "Error fetching expert database:"
    /\ handler[p].pc = "claude"
    /\ Len(handler[p].experts) > 0
    /\ handler[p].experts = expertDatabase
    /\ lastFetchTime > 0

\* The row's first-name column (the second) is non-empty after trimming.
HasFirstName(line) ==
  LET v == Split(line, ",") IN Len(v) >= 2 /\ Trim(v[2]) # <<>>

\* The row's status column (the eighth) parses to 0: it is absent, or has
\* no number to parse, or its number is 0.
StatusIsZero(line) ==
  LET v == Split(line, ",")
      r == parseInt(v[8])
  IN  Len(v) < 8 \/ r.nan \/ r.val = 0

\* The places of the feed's kept rows among its lines: the non-blank lines
\* after the header line whose first name is given and whose status is 0.
KeptRows(lines) ==
  { i \in 2..Len(lines) :
      Trim(lines[i]) # <<>> /\ HasFirstName(lines[i]) /\ StatusIsZero(lines[i]) }

\* db holds one record for each kept row of the feed and no other, in the
\* order of the rows.
HoldsKeptRows(db, data) ==
  LET lines == Split(data, "\n")
      kept  == KeptRows(lines)
  IN  /\ Len(db) = Cardinality(kept)
      /\ \A i \in kept :
           LET k == Cardinality({j \in kept : j <= i})
               v == Split(lines[i], ",")
           IN  /\ db[k].firstName = Trim(v[2])
               /\ db[k].lastName = Trim(v[1])
               /\ db[k].status = 0

MissingOrEmpty(v) ==
  \/ v.t \in {"undefined", "null"}
  \/ v.t \in {"string", "array"} /\ v.s = <<>>

\* The run was refused: HTTP 400 and nothing sent, no directory read.
Refused(h) ==
  /\ h.pc = "done"
  /\ h.res.status = 400
  /\ h.posts = 0
  /\ h.reads = 0
  /\ h.gets = 0

\* C4, as stated: a request in which a required field is missing or empty
\* (Phase 1: challenge; Phase 2: challenge or challengeType; Phase 3:
\* challenge or team) is answered 400 with no gateway call and no
\* directory read.
C4_MissingOrEmptyRefused ==
  \A p \in Requests :
    LET h == handler[p]
    IN  ( \/ h.route = "phase1" /\ MissingOrEmpty(h.body.challenge)
          \/ h.route = "phase2" /\ ( \/ MissingOrEmpty(h.body.challenge)
                                    \/ MissingOrEmpty(h.body.challengeType) )
          \/ h.route = "phase3" /\ ( \/ MissingOrEmpty(h.body.challenge)
                                    \/ MissingOrEmpty(h.body.team) ) )
        => Refused(h)

\* C4, amended: as stated, but for Phase 3's team only when it is absent
\* or null; an empty team array passes the validation.
C4_MissingRefused ==
  \A p \in Requests :
    LET h == handler[p]
    IN  ( \/ h.route = "phase1" /\ MissingOrEmpty(h.body.challenge)
          \/ h.route = "phase2" /\ ( \/ MissingOrEmpty(h.body.challenge)
                                    \/ MissingOrEmpty(h.body.challengeType) )
          \/ h.route = "phase3" /\ ( \/ MissingOrEmpty(h.body.challenge)
                                    \/ h.body.team.t \in {"undefined", "null"} ) )
        => Refused(h)

\* A Phase 2 request without challengeType, refused after the directory
\* had been loaded.
C4_Witness ==
  \E p \in Requests :
    /\ handler[p].route = "phase2"
    /\ Truthy(handler[p].body.challenge)
    /\ handler[p].body.challengeType = JUndefined
    /\ Refused(handler[p])
    /\ handler[Boot].pc = "done"

\* The run of a route answered 200.
Succeeded(h, route) == h.route = route /\ h.pc = "done" /\ h.res.status = 200

\* The number of entries of the response's team.
TeamEntries(json) ==
  IF "team" \in DOMAIN json /\ json["team"].t = "array" THEN Len(json["team"].s) ELSE 0

StaticSwapFields(json) ==
  /\ "swapAvailable" \in DOMAIN json /\ json["swapAvailable"] = JBool(TRUE)
  /\ "swapLimit" \in DOMAIN json /\ json["swapLimit"] = JNum(3)

\* C5, as stated: every Phase 2 success response has exactly 9 team
\* entries and swapAvailable = true, swapLimit = 3, whatever valid JSON the
\* model answered.
C5_NineEntriesAndSwapFields ==
  \A p \in Requests :
    Succeeded(handler[p], "phase2") =>
      TeamEntries(handler[p].res.json) = 9 /\ StaticSwapFields(handler[p].res.json)

\* C5, amended: every Phase 2 success response has swapAvailable = true
\* and swapLimit = 3 whatever valid JSON the model answered, and its team
\* is the team of the model's output, passed through: it has 9 entries
\* exactly when the model's output is an object whose team has 9.
C5_SwapFieldsAndTeamPassedThrough ==
  \A p \in Requests :
    Succeeded(handler[p], "phase2") =>
      LET json == handler[p].res.json
          out  == handler[p].parsed
      IN  /\ StaticSwapFields(json)
          /\ (out.val.t = "object" /\ "team" \in DOMAIN out.props)
               => ("team" \in DOMAIN json /\ json["team"] = out.props["team"])
          /\ (out.val.t = "object" /\ ~("team" \in DOMAIN out.props))
               => ~("team" \in DOMAIN json)
          /\ TeamEntries(json) = 9 <=>
               ( /\ out.val.t = "object"
                 /\ "team" \in DOMAIN out.props
                 /\ out.props["team"].t = "array"
                 /\ Len(out.props["team"].s) = 9 )

\* A Phase 2 success whose model output set swapAvailable to false and
\* swapLimit to 0 and named two experts.
C5_Witness ==
  \E p \in Requests :
    /\ Succeeded(handler[p], "phase2")
    /\ "swapAvailable" \in DOMAIN handler[p].parsed.props
    /\ "swapLimit" \in DOMAIN handler[p].parsed.props
    /\ TeamEntries(handler[p].res.json) = 2

\* C6: every success response of the Phase N handler carries phase = N,
\* also when the model's output has a phase key of its own.
C6_PhaseIsHandlersPhase ==
  \A p \in Requests :
    /\ Succeeded(handler[p], "phase1") => handler[p].res.json["phase"] = JNum(1)
    /\ Succeeded(handler[p], "phase2") => handler[p].res.json["phase"] = JNum(2)
    /\ Succeeded(handler[p], "phase3") => handler[p].res.json["phase"] = JNum(3)

\* C7: every Phase 3 success response has totalQuestions = 5, whatever
\* questionNumber or totalQuestions the model's output carries.
C7_TotalQuestionsIsFive ==
  \A p \in Requests :
    Succeeded(handler[p], "phase3") =>
      /\ "totalQuestions" \in DOMAIN handler[p].res.json
      /\ handler[p].res.json["totalQuestions"] = JNum(5)

\* A Phase 3 success whose model output carried totalQuestions = 9 and
\* questionNumber = 6.
C7_Witness ==
  \E p \in Requests :
    /\ Succeeded(handler[p], "phase3")
    /\ "totalQuestions" \in DOMAIN handler[p].parsed.props
    /\ handler[p].parsed.props["totalQuestions"] = JNum(9)
    /\ "questionNumber" \in DOMAIN handler[p].parsed.props
    /\ handler[p].res.json["questionNumber"] = JNum(6)

\* C8: the cache is the empty sequence it starts as, or exactly the kept
\* rows of the one response that was parsed last; and what a reader holds
\* is the empty sequence or exactly the kept rows of one response: never a
\* part of a snapshot nor records of two responses.
C8_CacheIsOneResponse ==
  /\ IF lastFetchTime = 0 THEN expertDatabase = <<>>
     ELSE HoldsKeptRows(expertDatabase, lastData)
  /\ \A p \in Tasks :
       \/ handler[p].experts = <<>>
       \/ \E data \in SmallFeeds : HoldsKeptRows(handler[p].experts, data)

\* A reader holds the snapshot of one response while the cache already
\* holds that of another, stored by an overlapping refresh.
C8_Witness ==
  \E p \in Requests :
    /\ handler[p].pc = "claude"
    /\ HoldsKeptRows(handler[p].experts, FeedOne)
    /\ lastData = FeedTwo
    /\ Len(expertDatabase) = 2

\* C9: reads are not synchronized against a refresh in flight: a read that
\* begins while the cache is empty or stale and another task's CSV fetch
\* has not completed sends a fetch of its own.
C9_ReadDuringRefreshFetches ==
  [][\A p \in Tasks :
       ( /\ BeginsRead(p)
         /\ (Len(expertDatabase) = 0 \/ now - lastFetchTime >= CACHE_DURATION)
         /\ \E q \in Tasks \ {p} : handler[q].pc = "csv" )
         => /\ handler'[p].pc = "csv"
            /\ handler'[p].gets = 1
            /\ \E q \in Tasks \ {p} : handler'[q].pc = "csv"]_vars

\* Two CSV fetches in flight at once.
C9_Witness ==
  \E p, q \in Tasks :
    /\ p # q
    /\ handler[p].pc = "csv" /\ handler[p].gets = 1
    /\ handler[q].pc = "csv" /\ handler[q].gets = 1

\* C10: the stored refresh timestamp never decreases.
C10_TimestampNeverDecreases ==
  [][lastFetchTime' >= lastFetchTime]_vars

====
